---- MODULE Spec2Model ----
(***************************************************************************)
(* Model of ena-dl.py: the metadata query result is iterated record by     *)
(* record, every eligible file is fetched by download_fastq (Aspera first, *)
(* wget as fallback, md5 verified), fetched paths are accumulated per      *)
(* group and merged at the end, and two JSON files are written.            *)
(*                                                                         *)
(* Strings that the program takes apart are modelled as tuples of their    *)
(* parts: a remote locator is <<scheme, stem, mark>> and its basename is   *)
(* <<stem, mark>> (the ".fastq.gz" extension is implied); the empty string *)
(* is the empty tuple <<>>.  A file's content is a sequence of blocks.     *)
(***************************************************************************)
EXTENDS Naturals, Sequences, FiniteSets, TLC

VARIABLES
    pc,             \* position of __main__
    exit_status,    \* <<status>> once the process has ended, <<>> before
    raised,         \* the uncaught exception that ended the program, or NoExc
    args,           \* parsed command line options
    ena_data,       \* what get_run_info returned: a list, or False
    env_ASCP,       \* os.environ holds ASCP and ASCP_KEY
    outdir_isdir,   \* os.path.isdir(outdir)
    disk,           \* files under outdir: path -> content
    nrun,           \* number of records of ena_data iterated so far
    run,            \* loop variable of "for run in ena_data"
    i,              \* loop variable of "for i in range(len(aspera))" (1-based)
    is_paired, is_r2, is_miseq,
    runs,           \* the group accumulator: [null, items]
    success, use_ftp, retries, fastq,   \* locals of download_fastq
    nAscp, nWget,   \* run_command invocations of ascp / wget in this call
    md5_called,     \* md5sum(fastq) has been called in this call
    merged,         \* number of items of runs whose merge has been executed
    merge_log,      \* messages log_stdout printed in the merge loop
    manifest,       \* ena-run-mergers.json: [written, data]
    info_written,   \* ena-run-info.json has been written
    fetchLog,       \* history: successful download_fastq returns, in order
    contributors    \* history: <<group, instrument_model>> of every append

vars == <<pc, exit_status, raised, args, ena_data, merge_log, env_ASCP, outdir_isdir, disk, nrun, run, i,
          is_paired, is_r2, is_miseq, runs, success, use_ftp, retries, fastq,
          nAscp, nWget, md5_called, merged, manifest, info_written, fetchLog,
          contributors>>

----------------------------------------------------------------------------
(* Bounds of the model *)

MaxRuns == 2

(* Program constants *)

max_retry == 10
ExitSysExit == 0
ExitUncaught == 1
ExitNormal == 0

NoStatus == <<>>
NoExc == ""
OutDir == "out"
None == <<"None">>
EmptyStr == <<>>
NoRun == [run_accession |-> "", sample_accession |-> "",
          experiment_accession |-> "", library_layout |-> "",
          instrument_model |-> <<>>, fastq_aspera |-> <<>>,
          fastq_ftp |-> <<>>, fastq_md5 |-> <<>>]
NoPath == <<>>

----------------------------------------------------------------------------
(* Strings and files *)

RunAcc == <<"R1", "R2", "R3", "R4">>
AltStem == <<"R1x", "R2x", "R3x", "R4x">>

Basename(locator) == <<locator[2], locator[3]>>

EndsWith(locator, mark) == locator[3] = mark

RemoteContent(locator) == <<Basename(locator)>>

CorruptContent == << <<"corrupt", "">> >>

Md5(content) == <<"md5", content>>

Lower(word) ==
    CASE word \in {"MiSeq", "MISEQ", "miseq"} -> "miseq"
      [] word \in {"HiSeq", "hiseq"} -> "hiseq"
      [] word \in {"Illumina", "illumina"} -> "illumina"
      [] OTHER -> word

ContainsMiseq(model) == \E k \in 1..Len(model) : Lower(model[k]) = "miseq"

Exists(d, path) == path \in DOMAIN d

(* An os.remove that leaves the file in place *)
Remove_keeps(d, path) == d

(* os.remove(path) *)
Remove(d, path) == [p \in DOMAIN d \ {path} |-> d[p]]

Put(d, path, content) == [p \in DOMAIN d \cup {path} |->
                            IF p = path THEN content ELSE d[p]]

----------------------------------------------------------------------------
(* The records the metadata query can return.  The n-th record has run     *)
(* accession RunAcc[n]; ENA names a run's files after its accession.       *)

Record(n, exp, layout, model, files) ==
    [run_accession |-> RunAcc[n],
     sample_accession |-> "S1",
     experiment_accession |-> exp,
     library_layout |-> layout,
     instrument_model |-> model,
     fastq_aspera |-> [k \in 1..Len(files) |-> <<"fasp", files[k].stem, files[k].mark>>],
     fastq_ftp |-> [k \in 1..Len(files) |-> <<"ftp", files[k].stem, files[k].mark>>],
     fastq_md5 |-> [k \in 1..Len(files) |->
                      IF files[k].has_md5
                      THEN Md5(RemoteContent(<<"fasp", files[k].stem, files[k].mark>>))
                      ELSE EmptyStr]]

File(stem, mark, has_md5) == [stem |-> stem, mark |-> mark, has_md5 |-> has_md5]

HiSeq == <<"Illumina", "HiSeq">>

MiSeq == <<"Illumina", "MiSeq">>

(* The shapes of record the model draws from: the file lists ENA offers    *)
(* for paired and single runs, and for the plain two-file paired run the   *)
(* other experiment and the other instrument.                              *)
RunChoices(n) ==
    LET a == RunAcc[n]
        x == AltStem[n]
        f1 == File(a, "_1", TRUE)
        f2 == File(a, "_2", TRUE)
        fn == File(a, "", TRUE)
    IN  { Record(n, "E1", "PAIRED", HiSeq, <<f1, f2>>),
          Record(n, "E1", "PAIRED", MiSeq, <<f1, f2>>),
          Record(n, "E2", "PAIRED", HiSeq, <<f1, f2>>),
          Record(n, "E1", "PAIRED", HiSeq, <<f2, f1>>),
          Record(n, "E1", "PAIRED", HiSeq, <<File(a, "_1", FALSE), f2>>),
          Record(n, "E1", "PAIRED", HiSeq, <<f1>>),
          Record(n, "E1", "PAIRED", HiSeq, <<f2>>),
          Record(n, "E1", "PAIRED", HiSeq, <<fn>>),
          Record(n, "E1", "PAIRED", HiSeq, <<File(x, "", TRUE)>>),
          Record(n, "E1", "PAIRED", HiSeq, <<f1, f2, fn>>),
          Record(n, "E1", "SINGLE", HiSeq, <<fn>>),
          Record(n, "E2", "SINGLE", MiSeq, <<fn>>),
          Record(n, "E1", "SINGLE", HiSeq, <<f2>>) }

(* Files a previous invocation may have left under outdir. *)
PreExisting ==
    LET p == <<OutDir, RunAcc[1], "_1">>
    IN  { <<>>, [q \in {p} |-> CorruptContent] }

----------------------------------------------------------------------------
(* The group accumulator: an insertion-ordered dict, or None *)

RunsNone == [null |-> TRUE, items |-> <<>>]

RunsEmpty == [null |-> FALSE, items |-> <<>>]

Names(r) == {r.items[k].name : k \in 1..Len(r.items)}

IndexOf(r, name) == CHOOSE k \in 1..Len(r.items) : r.items[k].name = name

Truthy(r) == ~r.null /\ Len(r.items) > 0

(* An accumulator created whatever the options *)
Grouping_always(a) == TRUE

(* "if args.group_by_experiment or args.group_by_sample" *)
Grouping(a) == a.group_by_experiment \/ a.group_by_sample

----------------------------------------------------------------------------
Init ==
    /\ pc = "start"
    /\ exit_status = NoStatus
    /\ raised = NoExc
    /\ args \in [group_by_experiment : BOOLEAN, group_by_sample : BOOLEAN,
                 debug : BOOLEAN]
    /\ env_ASCP \in BOOLEAN
    /\ ena_data = "unset"
    /\ merge_log = <<>>
    /\ disk \in PreExisting
    /\ outdir_isdir \in (IF DOMAIN disk = {} THEN BOOLEAN ELSE {TRUE})
    /\ nrun = 0
    /\ run = NoRun
    /\ i = 0
    /\ is_paired = FALSE
    /\ is_r2 = FALSE
    /\ is_miseq = FALSE
    /\ runs = RunsNone
    /\ success = FALSE
    /\ use_ftp = FALSE
    /\ retries = 0
    /\ fastq = NoPath
    /\ nAscp = 0
    /\ nWget = 0
    /\ md5_called = FALSE
    /\ merged = 0
    /\ manifest = [written |-> FALSE, data |-> <<>>]
    /\ info_written = FALSE
    /\ fetchLog = <<>>
    /\ contributors = {}

(* An uncaught exception ends the interpreter with status 1. *)
Crash(exc) ==
    /\ pc' = "crashed"
    /\ exit_status' = <<ExitUncaught>>
    /\ raised' = exc

(* A len() that accepts whatever get_run_info returned *)
LenRaises_never(data) == FALSE

(* len(ena_data) in the "Total Runs To Download" message raises TypeError  *)
(* when get_run_info returned False.                                       *)
LenRaises(data) == data = "False"

(* get_run_info and the lines up to the record loop *)
GetRunInfo ==
    /\ pc = "start"
    /\ \E ok \in BOOLEAN :
         LET data == IF ok THEN "list" ELSE "False"
         IN  /\ ena_data' = data
             /\ IF LenRaises(data)
                THEN /\ Crash("TypeError")
                     /\ UNCHANGED runs
                ELSE /\ pc' = "loop"
                     /\ runs' = IF Grouping(args) THEN RunsEmpty ELSE RunsNone
                     /\ UNCHANGED <<exit_status, raised>>
    /\ UNCHANGED <<args, merge_log, env_ASCP, outdir_isdir, disk, nrun, run, i, is_paired,
                   is_r2, is_miseq, success, use_ftp, retries, fastq, nAscp,
                   nWget, md5_called, merged, manifest, info_written, fetchLog,
                   contributors>>

(* for run in ena_data: the next record, or the end of the list *)
NextRun ==
    /\ pc = "loop"
    /\ \/ /\ nrun < MaxRuns
          /\ \E r \in RunChoices(nrun + 1) :
               /\ run' = r
               /\ is_paired' = (r.library_layout = "PAIRED")
          /\ nrun' = nrun + 1
          /\ i' = 1
          /\ pc' = "file"
       \/ /\ pc' = "merge"
          /\ UNCHANGED <<nrun, run, i, is_paired>>
    /\ UNCHANGED <<exit_status, raised, args, ena_data, merge_log, env_ASCP, outdir_isdir, disk, is_r2,
                   is_miseq, runs, success, use_ftp, retries, fastq, nAscp,
                   nWget, md5_called, merged, manifest, info_written, fetchLog,
                   contributors>>

----------------------------------------------------------------------------
(* Roles read off the file name alone, whatever the layout *)
Classify_bySuffix(paired, aspera, k, run_accession) ==
    [skip |-> FALSE, is_r2 |-> EndsWith(aspera[k], "_2"), is_paired |-> paired]

(* The naked-file rule testing that the file is listed first, not alone *)
Classify_firstListed(paired, aspera, k, run_accession) ==
    IF paired
    THEN IF EndsWith(aspera[k], "_2")
         THEN [skip |-> FALSE, is_r2 |-> TRUE, is_paired |-> paired]
         ELSE IF EndsWith(aspera[k], "_1")
         THEN [skip |-> FALSE, is_r2 |-> FALSE, is_paired |-> paired]
         ELSE IF k = 1 /\ Basename(aspera[k]) = <<run_accession, "">>
              THEN [skip |-> FALSE, is_r2 |-> FALSE, is_paired |-> FALSE]
              ELSE [skip |-> TRUE, is_r2 |-> FALSE, is_paired |-> paired]
    ELSE [skip |-> FALSE, is_r2 |-> FALSE, is_paired |-> paired]

(* The naked-file rule without the test that the file is the only one *)
Classify_anyCount(paired, aspera, k, run_accession) ==
    IF paired
    THEN IF EndsWith(aspera[k], "_2")
         THEN [skip |-> FALSE, is_r2 |-> TRUE, is_paired |-> paired]
         ELSE IF EndsWith(aspera[k], "_1")
         THEN [skip |-> FALSE, is_r2 |-> FALSE, is_paired |-> paired]
         ELSE IF Basename(aspera[k]) = <<run_accession, "">>
              THEN [skip |-> FALSE, is_r2 |-> FALSE, is_paired |-> FALSE]
              ELSE [skip |-> TRUE, is_r2 |-> FALSE, is_paired |-> paired]
    ELSE [skip |-> FALSE, is_r2 |-> FALSE, is_paired |-> paired]

(* Classification of file k of a run (the body of "if is_paired:").        *)
(* skip: the file is passed over by "continue".                            *)
Classify(paired, aspera, k, run_accession) ==
    IF paired
    THEN IF EndsWith(aspera[k], "_2")
         THEN [skip |-> FALSE, is_r2 |-> TRUE, is_paired |-> paired]
         ELSE IF EndsWith(aspera[k], "_1")
         THEN [skip |-> FALSE, is_r2 |-> FALSE, is_paired |-> paired]
         ELSE LET obs_fq == Basename(aspera[k])
                  exp_fq == <<run_accession, "">>
              IN  IF Len(aspera) = 1 /\ obs_fq = exp_fq
                  THEN [skip |-> FALSE, is_r2 |-> FALSE, is_paired |-> FALSE]
                  ELSE [skip |-> TRUE, is_r2 |-> FALSE, is_paired |-> paired]
    ELSE [skip |-> FALSE, is_r2 |-> FALSE, is_paired |-> paired]

(* fastq = '{0}/{1}'.format(outdir, os.path.basename(fasp)) *)
FastqPath(outdir, fasp) == <<outdir>> \o Basename(fasp)

(* The existence test left out: every call transfers *)
MustDownload_always(d, path) == TRUE

(* "if not os.path.exists(fastq)": the transfer loop is entered *)
MustDownload(d, path) == ~Exists(d, path)

(* The test of the checksum field left out *)
Eligible_anyMd5(c, md5, debug) == ~c.skip /\ ~debug

(* "if md5[i] and not args.debug", reached unless the file was skipped *)
Eligible(c, md5, debug) == ~c.skip /\ md5 # EmptyStr /\ ~debug

(* One pass of "for i in range(len(aspera))" up to the call of             *)
(* download_fastq, and download_fastq up to its transfer loop.             *)
FileStep ==
    /\ pc = "file"
    /\ IF i > Len(run.fastq_aspera)
       THEN \* the record is done; its loop variables are dead from here on
            /\ pc' = "loop"
            /\ run' = NoRun
            /\ i' = 0
            /\ is_paired' = FALSE
            /\ is_r2' = FALSE
            /\ fastq' = NoPath
            /\ success' = FALSE
            /\ use_ftp' = FALSE
            /\ retries' = 0
            /\ nAscp' = 0
            /\ nWget' = 0
            /\ md5_called' = FALSE
            /\ UNCHANGED <<outdir_isdir>>
       ELSE LET c == Classify(is_paired, run.fastq_aspera, i, run.run_accession)
            IN  /\ is_paired' = c.is_paired
                /\ is_r2' = c.is_r2
                /\ UNCHANGED run
                /\ IF Eligible(c, run.fastq_md5[i], args.debug)
                   THEN LET path == FastqPath(OutDir, run.fastq_aspera[i])
                        IN  /\ fastq' = path
                            /\ use_ftp' = FALSE
                            /\ retries' = 0
                            /\ nAscp' = 0
                            /\ nWget' = 0
                            /\ md5_called' = FALSE
                            /\ UNCHANGED i
                            /\ IF MustDownload(disk, path)
                               THEN /\ success' = FALSE
                                    /\ outdir_isdir' = TRUE   \* mkdir -p
                                    /\ pc' = "fetch"
                               ELSE /\ success' = TRUE
                                    /\ UNCHANGED outdir_isdir
                                    /\ pc' = "returned"
                   ELSE /\ i' = i + 1
                        /\ pc' = "file"
                        /\ UNCHANGED <<fastq, success, use_ftp, retries, nAscp,
                                       nWget, md5_called, outdir_isdir>>
    /\ UNCHANGED <<exit_status, raised, args, ena_data, merge_log, env_ASCP, disk, nrun, is_miseq, runs,
                   merged, manifest, info_written, fetchLog, contributors>>

----------------------------------------------------------------------------
(* What the environment can do in one transfer: the command's return code  *)
(* and the file it leaves at the destination.                              *)
TransferOutcomes ==
    [rc_ok : BOOLEAN, file : {"good", "corrupt", "absent"}]

(* md5sum on an existing file: its checksum, empty stdout, or a failure    *)
(* of the command.                                                         *)
Md5Outcomes == {"sum", "nostdout", "error"}

AfterTransfer(d, path, source, t) ==
    CASE t.file = "good" -> Put(d, path, RemoteContent(source))
      [] t.file = "corrupt" -> Put(d, path, CorruptContent)
      [] OTHER -> d

(* onfinish_handler: a non-zero return code raises RuntimeError *)
Raises(rc_ok) == ~rc_ok

(* md5sum(file): [raised, val] *)
Md5sum(d, file, m) ==
    IF Exists(d, file)
    THEN IF Raises(m # "error")
         THEN [raised |-> TRUE, val |-> None]
         ELSE IF m = "sum"
              THEN [raised |-> FALSE, val |-> Md5(d[file])]
              ELSE [raised |-> FALSE, val |-> None]
    ELSE [raised |-> FALSE, val |-> None]

(* The bookkeeping with a fallback that hands back to Aspera *)
NextRetry_noBreak(ftp, n) ==
    LET r == n + 1
    IN  IF r > max_retry
        THEN [use_ftp |-> ~ftp, retries |-> 0, brk |-> FALSE]
        ELSE [use_ftp |-> ftp, retries |-> r, brk |-> FALSE]

(* The bookkeeping with the switch one retry early *)
NextRetry_early(ftp, n) ==
    LET r == n + 1
    IN  IF r >= max_retry
        THEN IF ~ftp
             THEN [use_ftp |-> TRUE, retries |-> 0, brk |-> FALSE]
             ELSE [use_ftp |-> ftp, retries |-> r, brk |-> TRUE]
        ELSE [use_ftp |-> ftp, retries |-> r, brk |-> FALSE]

(* The bookkeeping after a checksum mismatch: retries += 1, then the       *)
(* switch to wget or the break.                                            *)
NextRetry(ftp, n) ==
    LET r == n + 1
    IN  IF r > max_retry
        THEN IF ~ftp
             THEN [use_ftp |-> TRUE, retries |-> 0, brk |-> FALSE]
             ELSE [use_ftp |-> ftp, retries |-> r, brk |-> TRUE]
        ELSE [use_ftp |-> ftp, retries |-> r, brk |-> FALSE]

(* One iteration of "while not success" in download_fastq *)
Attempt ==
    /\ pc = "fetch"
    /\ IF ~use_ftp /\ ~env_ASCP
       THEN \* os.environ['ASCP'] raises KeyError
            /\ Crash("KeyError")
            /\ UNCHANGED <<disk, success, use_ftp, retries, nAscp, nWget, md5_called>>
       ELSE \E t \in TransferOutcomes, m \in Md5Outcomes :
            LET source == IF use_ftp THEN run.fastq_ftp[i] ELSE run.fastq_aspera[i]
                d1 == AfterTransfer(disk, fastq, source, t)
                sum == Md5sum(d1, fastq, m)
                nxt == NextRetry(use_ftp, retries)
            IN  /\ nWget' = IF use_ftp THEN nWget + 1 ELSE nWget
                /\ nAscp' = IF use_ftp THEN nAscp ELSE nAscp + 1
                /\ IF Raises(t.rc_ok)
                   THEN /\ Crash("RuntimeError: transfer")
                        /\ disk' = d1
                        /\ UNCHANGED <<success, use_ftp, retries, md5_called>>
                   ELSE /\ md5_called' = TRUE
                        /\ IF sum.raised
                           THEN /\ Crash("RuntimeError: md5sum")
                                /\ disk' = d1
                                /\ UNCHANGED <<success, use_ftp, retries>>
                           ELSE IF sum.val # run.fastq_md5[i]
                           THEN /\ disk' = IF Exists(d1, fastq)
                                           THEN Remove(d1, fastq) ELSE d1
                                /\ use_ftp' = nxt.use_ftp
                                /\ retries' = nxt.retries
                                /\ UNCHANGED success
                                /\ pc' = IF nxt.brk THEN "returned" ELSE "fetch"
                                /\ UNCHANGED <<exit_status, raised>>
                           ELSE /\ disk' = d1
                                /\ success' = TRUE
                                /\ pc' = "returned"
                                /\ UNCHANGED <<use_ftp, retries, exit_status, raised>>
    /\ UNCHANGED <<args, ena_data, merge_log, env_ASCP, outdir_isdir, nrun, run, i, is_paired, is_r2,
                   is_miseq, runs, fastq, merged, manifest, info_written,
                   fetchLog, contributors>>

----------------------------------------------------------------------------
(* The caller's handling of download_fastq's result *)

GroupName(a, rn) ==
    IF a.group_by_experiment THEN rn.experiment_accession
    ELSE rn.sample_accession

(* "if name not in runs: runs[name] = {...}", then the append to r2 or r1 *)
Accumulate(r, name, r2flag, path) ==
    LET r0 == IF name \notin Names(r)
              THEN [r EXCEPT !.items =
                      Append(@, [name |-> name, r1 |-> <<>>, r2 |-> <<>>])]
              ELSE r
        k == IndexOf(r0, name)
    IN  IF r2flag
        THEN [r0 EXCEPT !.items[k].r2 = Append(@, path)]
        ELSE [r0 EXCEPT !.items[k].r1 = Append(@, path)]

(* is_miseq after the block guarded by "if name not in runs" *)
MiseqAfter(flag, r, name, model) ==
    IF name \notin Names(r) /\ ContainsMiseq(model) THEN TRUE ELSE flag

(* The failure branch without the exit: the file loop goes on *)
OnFailure_continues ==
    /\ pc' = "file"
    /\ i' = i + 1
    /\ UNCHANGED <<exit_status, raised, runs, is_miseq, fetchLog, contributors>>

(* The else branch: the message is printed and sys.exit() is called *)
OnFailure ==
    /\ pc' = "exited"
    /\ exit_status' = <<ExitSysExit>>
    /\ UNCHANGED <<raised, i, runs, is_miseq, fetchLog, contributors>>

OnSuccess ==
    /\ fetchLog' = Append(fetchLog, [path |-> fastq, content |-> disk[fastq]])
    /\ IF Grouping(args)
       THEN LET name == GroupName(args, run)
            IN  /\ runs' = Accumulate(runs, name, is_r2, fastq)
                /\ is_miseq' = MiseqAfter(is_miseq, runs, name, run.instrument_model)
                /\ contributors' = contributors \cup {<<name, run.instrument_model>>}
       ELSE UNCHANGED <<runs, is_miseq, contributors>>
    /\ i' = i + 1
    /\ pc' = "file"
    /\ UNCHANGED <<exit_status, raised>>

HandleResult ==
    /\ pc = "returned"
    /\ IF success THEN OnSuccess ELSE OnFailure
    /\ UNCHANGED <<args, ena_data, merge_log, env_ASCP, outdir_isdir, disk, nrun, run, is_paired,
                   is_r2, success, use_ftp, retries, fastq, nAscp, nWget, md5_called,
                   merged, manifest, info_written>>

----------------------------------------------------------------------------
(* Merging *)

RECURSIVE Concat(_, _)
Concat(d, files) ==
    IF files = <<>> THEN <<>>
    ELSE d[Head(files)] \o Concat(d, Tail(files))

Range(seq) == {seq[k] : k \in 1..Len(seq)}

(* merge_runs without the rm of the concatenated files *)
MergeRuns_keeps(d, files, output) ==
    IF Len(files) > 1
    THEN LET d0 == Put(d, output, <<>>)
         IN  IF \E k \in 1..Len(files) : ~Exists(d0, files[k])
             THEN [exc |-> "RuntimeError: cat", disk |-> d0]
             ELSE [exc |-> NoExc, disk |-> Put(d0, output, Concat(d0, files))]
    ELSE IF Len(files) = 0
    THEN [exc |-> "IndexError", disk |-> d]
    ELSE IF Exists(d, files[1])
    THEN [exc |-> NoExc, disk |-> Put(Remove(d, files[1]), output, d[files[1]])]
    ELSE [exc |-> "RuntimeError: mv", disk |-> d]

(* merge_runs(runs, output): [exc, disk]; exc is the exception it raises, *)
(* NoExc when it returns                                                  *)
MergeRuns(d, files, output) ==
    IF Len(files) > 1
    THEN \* output is opened for writing, then cat, then rm
         LET d0 == Put(d, output, <<>>)
         IN  IF \E k \in 1..Len(files) : ~Exists(d0, files[k])
             THEN [exc |-> "RuntimeError: cat", disk |-> d0]
             ELSE LET d1 == Put(d0, output, Concat(d0, files))
                      d2 == [p \in DOMAIN d1 \ Range(files) |-> d1[p]]
                  IN  [exc |-> IF Cardinality(Range(files)) = Len(files)
                               THEN NoExc ELSE "RuntimeError: rm",
                       disk |-> d2]
    ELSE IF Len(files) = 0
    THEN \* runs[0] raises IndexError
         [exc |-> "IndexError", disk |-> d]
    ELSE IF Exists(d, files[1])
    THEN [exc |-> NoExc, disk |-> Put(Remove(d, files[1]), output, d[files[1]])]
    ELSE [exc |-> "RuntimeError: mv", disk |-> d]

MergePath(outdir, name, suffix) == <<outdir, name, suffix>>

(* The body of "for name, vals in runs.items()": [exc, disk] *)
MergeItem(d, item) ==
    IF Len(item.r1) # 0 /\ Len(item.r2) # 0
    THEN IF Len(item.r1) = Len(item.r2)
         THEN LET m1 == MergeRuns(d, item.r1, MergePath(OutDir, item.name, "_R1"))
              IN  IF m1.exc = NoExc
                  THEN MergeRuns(m1.disk, item.r2, MergePath(OutDir, item.name, "_R2"))
                  ELSE m1
         ELSE MergeRuns(d, item.r1, MergePath(OutDir, item.name, ""))
    ELSE MergeRuns(d, item.r1, MergePath(OutDir, item.name, ""))

(* The message log_stdout prints before an item is merged *)
MergeMessage(item) ==
    IF Len(item.r1) # 0 /\ Len(item.r2) # 0
    THEN IF Len(item.r1) = Len(item.r2)
         THEN <<"Merging paired end runs to", item.name>>
         ELSE <<"Merging single end runs to experiment">>
    ELSE <<"Merging single end runs to experiment">>

(* A manifest of the merged output paths instead of the accumulator *)
ManifestData_outputs(r) ==
    [k \in 1..Len(r.items) |->
        IF Len(r.items[k].r1) # 0 /\ Len(r.items[k].r1) = Len(r.items[k].r2)
        THEN [name |-> r.items[k].name,
              r1 |-> <<MergePath(OutDir, r.items[k].name, "_R1")>>,
              r2 |-> <<MergePath(OutDir, r.items[k].name, "_R2")>>]
        ELSE [name |-> r.items[k].name,
              r1 |-> <<MergePath(OutDir, r.items[k].name, "")>>,
              r2 |-> <<>>]]

(* write_json(runs, ".../ena-run-mergers.json") *)
ManifestData(r) == r.items

MergeGroup ==
    /\ pc = "merge"
    /\ Truthy(runs) /\ ~args.debug
    /\ merged < Len(runs.items)
    /\ LET m == MergeItem(disk, runs.items[merged + 1])
       IN  /\ disk' = m.disk
           /\ merge_log' = Append(merge_log, MergeMessage(runs.items[merged + 1]))
           /\ IF m.exc = NoExc
              THEN /\ merged' = merged + 1
                   /\ UNCHANGED <<pc, exit_status, raised>>
              ELSE /\ Crash(m.exc)
                   /\ UNCHANGED merged
    /\ UNCHANGED <<args, ena_data, env_ASCP, outdir_isdir, nrun, run, i, is_paired, is_r2,
                   is_miseq, runs, success, use_ftp, retries, fastq, nAscp,
                   nWget, md5_called, manifest, info_written, fetchLog, contributors>>

WriteManifest ==
    /\ pc = "merge"
    /\ Truthy(runs) /\ ~args.debug
    /\ merged = Len(runs.items)
    /\ manifest' = [written |-> TRUE, data |-> ManifestData(runs)]
    /\ pc' = "info"
    /\ UNCHANGED <<exit_status, raised, args, ena_data, merge_log, env_ASCP, outdir_isdir, disk, nrun, run, i,
                   is_paired, is_r2, is_miseq, runs, success, use_ftp, retries,
                   fastq, nAscp, nWget, md5_called, merged, info_written, fetchLog,
                   contributors>>

SkipMerge ==
    /\ pc = "merge"
    /\ ~(Truthy(runs) /\ ~args.debug)
    /\ pc' = "info"
    /\ UNCHANGED <<exit_status, raised, args, ena_data, merge_log, env_ASCP, outdir_isdir, disk, nrun, run, i,
                   is_paired, is_r2, is_miseq, runs, success, use_ftp, retries,
                   fastq, nAscp, nWget, md5_called, merged, manifest, info_written,
                   fetchLog, contributors>>

(* write_json(ena_data, ".../ena-run-info.json") and the end of the script *)
WriteInfo ==
    /\ pc = "info"
    /\ IF outdir_isdir
       THEN /\ info_written' = TRUE
            /\ pc' = "done"
            /\ exit_status' = <<ExitNormal>>
            /\ UNCHANGED raised
       ELSE \* open() raises FileNotFoundError
            /\ Crash("FileNotFoundError")
            /\ UNCHANGED info_written
    /\ UNCHANGED <<args, ena_data, merge_log, env_ASCP, outdir_isdir, disk, nrun, run, i, is_paired,
                   is_r2, is_miseq, runs, success, use_ftp, retries, fastq,
                   nAscp, nWget, md5_called, merged, manifest, fetchLog, contributors>>

Next ==
    \/ GetRunInfo
    \/ NextRun
    \/ FileStep
    \/ Attempt
    \/ HandleResult
    \/ MergeGroup
    \/ WriteManifest
    \/ SkipMerge
    \/ WriteInfo

Spec == Init /\ [][Next]_vars

Terminated == pc \in {"done", "exited", "crashed"}

(* The program is sequential and every command it runs returns: a step     *)
(* that can be taken is taken.                                             *)
FairSpec == Spec /\ WF_vars(Next)

----------------------------------------------------------------------------
(* Properties *)

DownloadFailed == pc = "returned" /\ ~success

(* C1: when download_fastq has returned failure for a file, the program   *)
(* terminates with a non-zero exit status.                                 *)
C1_FailureExitsNonZero ==
    pc = "exited" => exit_status # NoStatus /\ exit_status[1] # 0

(* C2: after the first terminal fetch failure processing stops at once:    *)
(* the only step is the exit, it makes no transfer, no merge and writes no *)
(* manifest, and no step follows the exit.                                 *)
C2_StopsAfterFailure ==
    /\ [][/\ pc # "exited"
          /\ DownloadFailed =>
               /\ pc' = "exited"
               /\ UNCHANGED <<nAscp, nWget, md5_called, disk, runs, merged,
                              manifest, info_written, fetchLog>>]_vars
    /\ [](pc = "exited" => merged = 0 /\ ~manifest.written)

C2_Witness ==
    /\ pc = "exited"
    /\ i < Len(run.fastq_aspera)
    /\ Truthy(runs)

(* C3: in download_fastq every attempt uses Aspera until the retry counter *)
(* exceeds max_retry; then the method switches to wget with the counter    *)
(* reset to 0; the method never returns to Aspera, and failure is returned *)
(* only when the counter exceeds max_retry on wget.                        *)
C3_PrimaryThenFallback ==
    /\ [](pc \in {"fetch", "returned"} =>
            /\ ~use_ftp => nWget = 0
            /\ nWget > 0 => nAscp = max_retry + 1
            /\ use_ftp => nAscp = max_retry + 1)
    /\ [][pc = "fetch" =>
            /\ use_ftp => use_ftp'
            /\ ~use_ftp => nWget' = nWget
            /\ use_ftp => nAscp' = nAscp /\ nWget' = nWget + 1
            /\ use_ftp' # use_ftp =>
                 retries + 1 > max_retry /\ retries' = 0 /\ pc' = "fetch"
            /\ (~use_ftp /\ ~use_ftp') => retries' <= max_retry
            /\ (pc' = "returned" /\ ~success') =>
                 use_ftp /\ retries' > max_retry]_vars

C3_Witness ==
    /\ DownloadFailed
    /\ use_ftp
    /\ nAscp = max_retry + 1
    /\ nWget = max_retry + 1

(* The fetch loop was left by an exception of a transfer or checksum       *)
(* command.                                                                *)
FetchAborted ==
    pc = "crashed" /\ raised \in {"RuntimeError: transfer", "RuntimeError: md5sum"}

(* C4: a fetch whose checksum never matches returns failure after exactly  *)
(* max_retry+1 Aspera attempts followed by exactly max_retry+1 wget        *)
(* attempts, and a fetch has no outcome other than success and this        *)
(* exhaustion.                                                             *)
C4_ExhaustionOnlyFailure ==
    /\ DownloadFailed => nAscp = max_retry + 1 /\ nWget = max_retry + 1
    /\ ~FetchAborted

(* C5: a call of download_fastq that finds the destination file returns    *)
(* success with that path in the same step, with no transfer and no        *)
(* checksum; and every file fetched so far stays at its destination during *)
(* the download phase, so a second fetch of it would find it.              *)
C5_ShortCircuit ==
    /\ [][(/\ pc = "file"
           /\ pc' \in {"fetch", "returned"}
           /\ Exists(disk, FastqPath(OutDir, run.fastq_aspera[i])))
          => /\ pc' = "returned"
             /\ success'
             /\ fastq' = FastqPath(OutDir, run.fastq_aspera[i])
             /\ nAscp' = 0 /\ nWget' = 0 /\ ~md5_called'
             /\ disk' = disk]_vars
    /\ [](pc \in {"loop", "file", "fetch", "returned"} =>
            \A k \in 1..Len(fetchLog) : Exists(disk, fetchLog[k].path))
    /\ [](pc = "returned" /\ nAscp = 0 /\ nWget = 0 => success /\ ~md5_called)

C5_Witness ==
    /\ pc = "returned"
    /\ success
    /\ nAscp = 0 /\ nWget = 0 /\ ~md5_called
    /\ Exists(disk, fastq)

(* C6: in every pass of the fetch loop an absent file, a checksum that     *)
(* cannot be obtained or a mismatch is an ordinary retryable failure (file *)
(* deleted, counter incremented, next attempt); the loop never ends        *)
(* abnormally because of a failed transfer or checksum step.               *)
C6_FetchLoopNeverAborts ==
    [][(pc = "fetch" /\ (use_ftp \/ env_ASCP)) =>
          /\ pc' \in {"fetch", "returned"}
          /\ ~success' =>
               /\ ~Exists(disk', fastq)
               /\ \/ retries' = retries + 1
                  \/ retries' = 0 /\ use_ftp' /\ ~use_ftp]_vars

----------------------------------------------------------------------------
(* Merge properties *)

LogPaths == [k \in 1..Len(fetchLog) |-> fetchLog[k].path]

(* The paths of a list appear in it in the order they were fetched. *)
InLogOrder(paths) ==
    SelectSeq(LogPaths, LAMBDA p : p \in Range(paths)) = paths

(* The contents, as fetched, of the files of a set, in the order fetched. *)
RECURSIVE LogConcat(_, _)
LogConcat(log, S) ==
    IF log = <<>> THEN <<>>
    ELSE (IF Head(log).path \in S THEN Head(log).content ELSE <<>>)
         \o LogConcat(Tail(log), S)

Listed(entry) == Range(entry.r1) \cup Range(entry.r2)

Outputs(name) ==
    {MergePath(OutDir, name, "_R1"), MergePath(OutDir, name, "_R2"),
     MergePath(OutDir, name, "")}

C8_PairedMerge ==
    \A k \in 1..Len(runs.items) :
        LET it == runs.items[k]
            o1 == MergePath(OutDir, it.name, "_R1")
            o2 == MergePath(OutDir, it.name, "_R2")
            o == MergePath(OutDir, it.name, "")
        IN  (k <= merged /\ Len(it.r1) # 0 /\ Len(it.r2) = Len(it.r1)) =>
                /\ Exists(disk, o1) /\ Exists(disk, o2) /\ ~Exists(disk, o)
                /\ InLogOrder(it.r1) /\ InLogOrder(it.r2)
                /\ disk[o1] = LogConcat(fetchLog, Range(it.r1))
                /\ disk[o2] = LogConcat(fetchLog, Range(it.r2))
                /\ \A q \in Listed(it) : ~Exists(disk, q)

C8_Witness ==
    /\ merged >= 1
    /\ Len(runs.items[1].r1) = 2
    /\ Len(runs.items[1].r2) = 2

(* The merge of item k has been executed: completed, or ended by an        *)
(* exception.                                                              *)
MergeExecuted(k) ==
    \/ k <= merged
    \/ k = merged + 1 /\ pc = "crashed" /\ raised = "IndexError"

(* C9: a group whose read-2 list is empty or whose lists differ in length  *)
(* is merged into exactly {group}.fastq.gz, built from read-1 only, with   *)
(* no _R1/_R2 output; the read-1 sources are consumed and the read-2 files *)
(* stay on disk unchanged.                                                 *)
C9_SingleMerge ==
    \A k \in 1..Len(runs.items) :
        LET it == runs.items[k]
            o1 == MergePath(OutDir, it.name, "_R1")
            o2 == MergePath(OutDir, it.name, "_R2")
            o == MergePath(OutDir, it.name, "")
        IN  (MergeExecuted(k) /\ (Len(it.r2) = 0 \/ Len(it.r1) # Len(it.r2))) =>
                /\ Exists(disk, o) /\ ~Exists(disk, o1) /\ ~Exists(disk, o2)
                /\ disk[o] = LogConcat(fetchLog, Range(it.r1))
                /\ \A q \in Range(it.r1) : ~Exists(disk, q)
                /\ \A q \in Range(it.r2) :
                      Exists(disk, q) /\ disk[q] = LogConcat(fetchLog, {q})

(* C10: at the end of the download phase is_miseq is true exactly if some  *)
(* run that contributed a fetched file to a group has an instrument model  *)
(* containing "miseq", whatever the run's position in its group.           *)
C10_MiseqIffAnyContributor ==
    pc \in {"merge", "info", "done"} =>
        (is_miseq <=> \E c \in contributors : ContainsMiseq(c[2]))

----------------------------------------------------------------------------
(* Classification properties *)

(* A locator that ends neither in _1.fastq.gz nor in _2.fastq.gz *)
Naked(locator) == ~EndsWith(locator, "_1") /\ ~EndsWith(locator, "_2")

(* File k is the only file of record r and is named <run_accession>.fastq.gz *)
OnlyFileOfRun(r, k) ==
    /\ Len(r.fastq_aspera) = 1
    /\ Basename(r.fastq_aspera[k]) = <<r.run_accession, "">>

(* The file loop is at file i of a PAIRED record, a naked file *)
AtNakedOfPaired ==
    /\ run # NoRun
    /\ i \in 1..Len(run.fastq_aspera)
    /\ run.library_layout = "PAIRED"
    /\ Naked(run.fastq_aspera[i])

(* C11: a naked file of a PAIRED run that is the run's only file and is    *)
(* named <run_accession>.fastq.gz makes the run SINGLE and is fetched (if  *)
(* it has a checksum and debug is off) and recorded as read-1; any other   *)
(* naked file of a PAIRED run is passed over: no call of download_fastq,   *)
(* no transfer, and its path is in no group and was never fetched.         *)
C11_NakedFileRule ==
    /\ [][(pc = "file" /\ AtNakedOfPaired) =>
            IF OnlyFileOfRun(run, i)
            THEN /\ ~is_paired' /\ ~is_r2'
                 /\ (run.fastq_md5[i] # EmptyStr /\ ~args.debug) =>
                       /\ pc' \in {"fetch", "returned"}
                       /\ fastq' = FastqPath(OutDir, run.fastq_aspera[i])
            ELSE /\ pc' = "file" /\ i' = i + 1
                 /\ UNCHANGED <<disk, runs, fetchLog, fastq, nAscp, nWget,
                                md5_called, is_paired>>]_vars
    /\ [][(pc = "returned" /\ success /\ AtNakedOfPaired /\ Grouping(args)) =>
            LET k == IndexOf(runs', GroupName(args, run))
            IN  /\ runs'.items[k].r1[Len(runs'.items[k].r1)] = fastq
                /\ \A j \in 1..Len(runs.items) :
                      runs'.items[j].r2 = runs.items[j].r2]_vars
    /\ [](run # NoRun /\ run.library_layout = "PAIRED" =>
            \A k \in 1..Len(run.fastq_aspera) :
                (Naked(run.fastq_aspera[k]) /\ ~OnlyFileOfRun(run, k)) =>
                    LET path == FastqPath(OutDir, run.fastq_aspera[k])
                    IN  /\ path \notin Range(LogPaths)
                        /\ ~Exists(disk, path)
                        /\ \A j \in 1..Len(runs.items) :
                              path \notin Listed(runs.items[j]))

C11_Witness ==
    /\ pc = "file"
    /\ run # NoRun
    /\ run.library_layout = "PAIRED"
    /\ ~is_paired
    /\ i = 2
    /\ \E k \in 1..Len(runs.items) :
          FastqPath(OutDir, run.fastq_aspera[1]) \in Range(runs.items[k].r1)

(* The destination path of file k of the current record *)
PathOf(k) == FastqPath(OutDir, run.fastq_aspera[k])

(* File k of the current record is handed to download_fastq when reached *)
Wanted(k) == run.fastq_md5[k] # EmptyStr /\ ~args.debug

(* The number of times a path occurs in a list *)
Occurrences(paths, path) == Len(SelectSeq(paths, LAMBDA q : q = path))

(* The current record is PAIRED with exactly the files X_1 and X_2 *)
PairedOneTwo ==
    /\ run # NoRun
    /\ run.library_layout = "PAIRED"
    /\ Len(run.fastq_aspera) = 2
    /\ \E a \in 1..2 :
          /\ EndsWith(run.fastq_aspera[a], "_1")
          /\ EndsWith(run.fastq_aspera[3 - a], "_2")

(* C12: every fetched file of a SINGLE run is appended to the read-1 list  *)
(* of its group and to no read-2 list, whatever its name; of a PAIRED run  *)
(* with files X_1 and X_2, once both are fetched, the group holds X_1 once *)
(* in read-1 and X_2 once in read-2, and neither in the other list.        *)
C12_RolesByLayout ==
    /\ [][(/\ pc = "returned" /\ success /\ Grouping(args)
           /\ run.library_layout = "SINGLE") =>
            LET k == IndexOf(runs', GroupName(args, run))
            IN  /\ runs'.items[k].r1[Len(runs'.items[k].r1)] = fastq
                /\ \A j \in 1..Len(runs.items) :
                      runs'.items[j].r2 = runs.items[j].r2]_vars
    /\ [](run # NoRun /\ run.library_layout = "SINGLE" =>
            /\ ~is_r2
            /\ \A k \in 1..Len(run.fastq_aspera) :
                  /\ \A j \in 1..Len(runs.items) :
                        PathOf(k) \notin Range(runs.items[j].r2)
                  /\ (k < i /\ Wanted(k) /\ Grouping(args)) =>
                        \E j \in 1..Len(runs.items) :
                            PathOf(k) \in Range(runs.items[j].r1))
    /\ [](PairedOneTwo /\ pc = "file" /\ i = 3 /\ Grouping(args)
            /\ Wanted(1) /\ Wanted(2) =>
            LET it == runs.items[IndexOf(runs, GroupName(args, run))]
                a == IF EndsWith(run.fastq_aspera[1], "_1") THEN 1 ELSE 2
            IN  /\ Occurrences(it.r1, PathOf(a)) = 1
                /\ Occurrences(it.r2, PathOf(3 - a)) = 1
                /\ Occurrences(it.r1, PathOf(3 - a)) = 0
                /\ Occurrences(it.r2, PathOf(a)) = 0)

C12_Witness ==
    /\ pc = "file"
    /\ run # NoRun
    /\ run.library_layout = "SINGLE"
    /\ i = 2
    /\ EndsWith(run.fastq_aspera[1], "_2")
    /\ \E j \in 1..Len(runs.items) : PathOf(1) \in Range(runs.items[j].r1)

(* The role the file loop gives a file *)
Role(c) ==
    IF c.skip THEN "skipped" ELSE IF c.is_r2 THEN "read-2" ELSE "read-1"

(* The roles of files k.. of a list, classified in order as the file loop  *)
(* does, is_paired handed from one file to the next.                       *)
RECURSIVE RolesFrom(_, _, _, _)
RolesFrom(paired, aspera, k, run_accession) ==
    IF k > Len(aspera) THEN <<>>
    ELSE LET c == Classify(paired, aspera, k, run_accession)
         IN  <<Role(c)>> \o RolesFrom(c.is_paired, aspera, k + 1, run_accession)

(* The roles of the files of a record listed in the order aspera *)
Roles(r, aspera) ==
    RolesFrom(r.library_layout = "PAIRED", aspera, 1, r.run_accession)

(* C13: for every permutation of a record's file list each file gets the   *)
(* role it gets in the listed order, and the file loop gives file i that   *)
(* role; is_paired differs from the layout only in a one-file record, and  *)
(* every record starts with is_paired taken from its own layout.           *)
C13_OrderIndependent ==
    /\ [](run # NoRun =>
            LET n == Len(run.fastq_aspera)
            IN  /\ \A f \in Permutations(1..n) :
                      LET listed == [k \in 1..n |-> run.fastq_aspera[f[k]]]
                      IN  \A k \in 1..n :
                            Roles(run, listed)[k] = Roles(run, run.fastq_aspera)[f[k]]
                /\ (is_paired # (run.library_layout = "PAIRED")) => n = 1)
    /\ [][(pc = "file" /\ i <= Len(run.fastq_aspera)) =>
            LET role == Roles(run, run.fastq_aspera)[i]
            IN  /\ (role = "skipped") => (pc' = "file" /\ i' = i + 1)
                /\ (role = "read-2") <=> is_r2'
                /\ pc' \in {"fetch", "returned"} => role # "skipped"]_vars
    /\ [][(pc = "loop" /\ pc' = "file") =>
            is_paired' = (run'.library_layout = "PAIRED")]_vars

C13_Witness ==
    /\ pc = "file"
    /\ run # NoRun
    /\ Len(run.fastq_aspera) = 3
    /\ i = 4
    /\ Roles(run, run.fastq_aspera) = <<"read-1", "read-2", "skipped">>
    /\ Len(fetchLog) >= 2

----------------------------------------------------------------------------
(* Skipped files, the query and grouping *)

(* C14: a file with an empty checksum field is passed over in one step     *)
(* that goes on to the next file and changes nothing else: it is never     *)
(* handed to download_fastq, never fetched, never listed in a group; the   *)
(* file loop ends in the record loop, which leads to the next record or    *)
(* the merge phase; and a run that ends inside a record ends at a file     *)
(* that was handed to download_fastq, never at a skipped one.              *)
C14_EmptyChecksumSkipped ==
    /\ [][(/\ pc = "file" /\ i <= Len(run.fastq_aspera)
           /\ (\/ run.fastq_md5[i] = EmptyStr
               \/ Roles(run, run.fastq_aspera)[i] = "skipped")) =>
            /\ pc' = "file" /\ i' = i + 1
            /\ UNCHANGED <<disk, runs, fetchLog, fastq, nAscp, nWget, md5_called,
                           exit_status, raised, merged, manifest, run, nrun>>]_vars
    /\ [][(pc = "file" /\ i > Len(run.fastq_aspera)) => pc' = "loop"]_vars
    /\ [][pc = "loop" => pc' \in {"file", "merge"}]_vars
    /\ [](pc \in {"fetch", "returned"} => run.fastq_md5[i] # EmptyStr)
    /\ [](run # NoRun =>
            \A k \in 1..Len(run.fastq_aspera) :
                run.fastq_md5[k] = EmptyStr =>
                    /\ PathOf(k) \notin Range(LogPaths)
                    /\ \A j \in 1..Len(runs.items) :
                          PathOf(k) \notin Listed(runs.items[j]))
    /\ [](Terminated /\ run # NoRun =>
            /\ i \in 1..Len(run.fastq_aspera)
            /\ Wanted(i)
            /\ Roles(run, run.fastq_aspera)[i] # "skipped")

C14_Witness ==
    /\ pc = "file"
    /\ run # NoRun
    /\ i = 3
    /\ run.fastq_md5[1] = EmptyStr
    /\ PathOf(2) \in Range(LogPaths)

(* C15: when get_run_info returns False the program ends in the same step *)
(* with an uncaught exception and a non-zero exit status, before any call  *)
(* of download_fastq: no transfer, no fetched file, no change of the disk, *)
(* no merge, no manifest and no metadata file.                             *)
C15_QueryFailureHalts ==
    /\ [][(pc = "start" /\ ena_data' = "False") =>
            /\ pc' = "crashed"
            /\ raised' # NoExc
            /\ exit_status' = <<ExitUncaught>>
            /\ UNCHANGED <<disk, outdir_isdir, runs, fetchLog, manifest,
                           info_written, merged>>]_vars
    /\ [](ena_data = "False" =>
            /\ pc = "crashed"
            /\ exit_status # NoStatus /\ exit_status[1] # 0
            /\ nAscp = 0 /\ nWget = 0 /\ ~md5_called
            /\ fetchLog = <<>>
            /\ disk \in PreExisting
            /\ merged = 0 /\ merge_log = <<>>
            /\ ~manifest.written
            /\ ~info_written)

C15_Witness ==
    /\ ena_data = "False"
    /\ pc = "crashed"
    /\ raised = "TypeError"

(* Neither --group_by_experiment nor --group_by_sample was given *)
NoGrouping == ~args.group_by_experiment /\ ~args.group_by_sample

(* C16: with neither grouping option the accumulator stays None, no merge  *)
(* is executed or announced, no manifest is written, every fetched file    *)
(* stays at its path with the content fetched, no other file appears, and  *)
(* a run that completes has written the metadata JSON.                     *)
C16_NoGroupingNoMerge ==
    NoGrouping =>
        /\ runs = RunsNone
        /\ contributors = {}
        /\ merged = 0 /\ merge_log = <<>>
        /\ ~manifest.written
        /\ \A k \in 1..Len(fetchLog) :
              /\ Exists(disk, fetchLog[k].path)
              /\ disk[fetchLog[k].path] = fetchLog[k].content
        /\ DOMAIN disk \subseteq
              Range(LogPaths) \cup {fastq} \cup UNION {DOMAIN d : d \in PreExisting}
        /\ pc = "done" => info_written

C16_Witness ==
    /\ NoGrouping
    /\ pc = "done"
    /\ info_written
    /\ Len(fetchLog) >= 2

----------------------------------------------------------------------------
(* The merge phase and its groups *)

(* A group with non-empty read-1 and read-2 lists of different lengths *)
Mismatched(item) ==
    Len(item.r1) # 0 /\ Len(item.r2) # 0 /\ Len(item.r1) # Len(item.r2)

(* C17: the message logged when a group with non-empty read-1 and read-2   *)
(* lists of different lengths is merged differs from the message logged    *)
(* for the same group with an empty read-2 list.                           *)
C17_AmbiguityNoticed ==
    \A k \in 1..Len(merge_log) :
        Mismatched(runs.items[k]) =>
            merge_log[k] # MergeMessage([runs.items[k] EXCEPT !.r2 = <<>>])

(* C18: every group of the accumulator has a non-empty read-1 list when    *)
(* the merge phase starts, and merge_runs is never called with an empty    *)
(* list of files.                                                          *)
C18_GroupsHaveReadOne ==
    /\ pc = "merge" =>
          \A k \in 1..Len(runs.items) : Len(runs.items[k].r1) > 0
    /\ raised # "IndexError"

----------------------------------------------------------------------------
(* download_fastq as a whole *)

(* C19: when download_fastq returns failure no file is at the destination; *)
(* when it returns success a file is at the destination, and either it     *)
(* was there at the call (no transfer was made and the disk is as at the   *)
(* call) or the checksum of the file left by the last attempt equals the   *)
(* expected checksum.                                                      *)
C19_DownloadPostcondition ==
    /\ [](pc = "returned" =>
            /\ fastq = PathOf(i)
            /\ ~success => ~Exists(disk, fastq)
            /\ success =>
                 /\ Exists(disk, fastq)
                 /\ \/ nAscp = 0 /\ nWget = 0 /\ ~md5_called
                    \/ /\ nAscp + nWget > 0
                       /\ md5_called
                       /\ Md5(disk[fastq]) = run.fastq_md5[i])
    /\ [][(pc = "file" /\ pc' = "returned") =>
            Exists(disk, fastq') /\ disk' = disk /\ success']_vars
    /\ [][(pc = "fetch" /\ pc' = "returned" /\ ~success') =>
            ~Exists(disk', fastq)]_vars

C19_Witness ==
    /\ pc = "returned"
    /\ success
    /\ md5_called
    /\ nWget >= 1
    /\ Md5(disk[fastq]) = run.fastq_md5[i]

(* Attempts the transfer loop can still make: those left on the current    *)
(* method, and all of the fallback's while still on Aspera.                *)
AttemptsLeft ==
    (IF use_ftp THEN 0 ELSE max_retry + 1) + (max_retry + 1 - retries)

(* C20: every pass of the transfer loop that stays in the loop lowers the  *)
(* number of attempts left, which is never negative; the counter goes up   *)
(* by one on a failed attempt and is reset only at the switch to wget,     *)
(* which happens once; in the loop the counter never exceeds max_retry;    *)
(* and the whole run terminates, which leaves no call of download_fastq    *)
(* in its loop for ever, since a terminated run makes no step.             *)
C20_Terminates ==
    /\ [](pc = "fetch" => AttemptsLeft > 0 /\ retries <= max_retry)
    /\ [][(pc = "fetch" /\ pc' = "fetch") =>
            /\ AttemptsLeft' < AttemptsLeft
            /\ \/ retries' = retries + 1 /\ use_ftp' = use_ftp
               \/ retries' = 0 /\ ~use_ftp /\ use_ftp']_vars
    /\ [][Terminated => Terminated' /\ pc' # "fetch"]_vars
    /\ <>Terminated

C20_Witness ==
    /\ DownloadFailed
    /\ AttemptsLeft = 0
    /\ nrun = MaxRuns

====
